---- MODULE Spec2Model ----
(***************************************************************************)
(* Session manager (LoginProvider) and resource store (GamesProvider) of   *)
(* src/src/contexts/gamesContext.tsx, with the identity provider and the   *)
(* remote API as their environment.                                        *)
(*                                                                         *)
(* One action is one event-loop task: a UI call, an identity-provider      *)
(* event, the resolution of a getIdToken promise, or the settlement of an  *)
(* API promise (its .then or .catch handler), together with the React      *)
(* effects that the task's state changes trigger.                          *)
(***************************************************************************)
EXTENDS Integers, Sequences, FiniteSets, TLC

(* ----------------------------- bounds ---------------------------------- *)
MaxCalls == 2       \* guarded calls issued in one run
MaxTokens == 2      \* credentials requested from the identity provider
MaxMsgs == 2        \* validation messages in a list-valued error
MaxSrv == 2         \* resources held by the server at start

(* --------------------------- program constants ------------------------- *)
NOT_FOUND_MESSAGE == "Oops! We couldn't find the game you're looking for. Please refresh and try again."
UNEXPECTED_ERROR_MESSAGE == "Oops! Something unexpected went wrong. We're sorry! Please try again later."
LOADING == "LOADING"
DONE == "DONE"
ERROR == "ERROR"

NoUser == "null"            \* user: null
NoToken == 0                \* token: null ; issued tokens are 1, 2, ...
Users == {"u1"}
CreateNames == {"a"}        \* attributes passed to createGame
UpdateNames == {"b"}        \* attributes passed to updateGame
GameIds == {1, MaxSrv, MaxSrv + 1}   \* ids passed to updateGame and destroyGame: first, last, not yet held
MsgPool == <<"e1", "e2", "e3", "e4">>

VARIABLES
  user, authLoading, authError,   \* useAuthState(auth)
  token,                          \* LoginProvider state
  issued,                         \* tokens issued by the identity provider
  pendingRefresh,                 \* unresolved getIdToken(true) promises: origin (0: LoginProvider effect, c: call c)
  signOutPending,                 \* a signOutWithGoogle() is in progress
  games, heap,                    \* GamesProvider state `games`: reference into the heap of live arrays
  gamesLoadingState,
  flashProps, modalHidden,        \* PageContext
  calls,                          \* one record per withTokenRefresh call
  requests,                       \* remote calls in flight, one per invocation of an operation
  last,                           \* what the task just run did to a guarded call: skipped it, or settled one of its promises
  srv, nextId,                    \* remote API: resources and next id
  callLimit                       \* guarded calls explored in this run

vars == <<user, authLoading, authError, token, issued, pendingRefresh,
          signOutPending, games, heap, gamesLoadingState,
          flashProps, modalHidden, calls, requests, last, srv, nextId,
          callLimit>>

sessionVars == <<user, authLoading, authError, token, issued>>
serverVars == <<srv, nextId>>

(* current value of the `games` state *)
Games == heap[games]

Game(i, n) == [id |-> i, name |-> n]
NoError == [code |-> 0, isArray |-> FALSE, message |-> <<>>]
NoResp == [ok |-> FALSE, status |-> 0, array |-> FALSE, json |-> <<>>, error |-> NoError]
NoFlash == [hidden |-> TRUE, type |-> "none", header |-> <<>>, isArray |-> FALSE, message |-> <<>>]

(* ApiError values raised by the remote API client *)
ScalarError(c) == [code |-> c, isArray |-> FALSE, message |-> <<"error">>]
ListError(c, n) == [code |-> c, isArray |-> TRUE, message |-> SubSeq(MsgPool, 1, n)]
ApiErrors ==
  {ScalarError(c) : c \in {401, 404, 500}} \cup {ListError(422, MaxMsgs)}

Repeat(x, n) == [i \in 1 .. n |-> x]
RemoveAt(s, i) == SubSeq(s, 1, i - 1) \o SubSeq(s, i + 1, Len(s))

(* ------------------------- LoginProvider -------------------------------- *)

(* withTokenRefresh, line 280: `if (!user || !token) return` *)
PreconditionBothMissing(u, t) == ~(u = NoUser /\ t = NoToken)
Precondition(u, t) == ~(u = NoUser \/ t = NoToken)

(* fn(currentToken), line 292: every operation passed by GamesProvider only  *)
(* starts a promise chain (api(...).then(...).catch(...)) and returns; the   *)
(* `throw e` of its .catch handler rejects that chain's promise and is not   *)
(* raised into the caller's try block.                                       *)
FnThrows(op) == FALSE

(* the while loop of withTokenRefresh, lines 285-307, on its local state *)
RECURSIVE Loop(_, _)
Loop(st, op) ==
  IF st.retryAttempt < 2
  THEN LET s1 == [st EXCEPT !.retryAttempt = @ + 1,
                            !.invoked = Append(@, st.currentToken)]
       IN IF ~FnThrows(op)
          THEN s1                                                  \* break
          ELSE IF s1.retryAttempt < 2
               THEN Loop([s1 EXCEPT !.refreshReq = @ + 1], op)      \* user.getIdToken(true)
               ELSE Loop([s1 EXCEPT !.signOut = @ + 1], op)         \* signOutWithGoogle()
  ELSE st

LoopStart(t) ==
  [retryAttempt |-> 0, currentToken |-> t, invoked |-> <<>>, refreshReq |-> 0, signOut |-> 0]

(* the loop without its `break` *)
RunLoopNoBreak(t, op) ==
  [retryAttempt |-> 2, currentToken |-> t, invoked |-> <<t, t>>, refreshReq |-> 0, signOut |-> 0]
(* the loop without its `break`, up to three rounds *)
RunLoopThreeRounds(t, op) ==
  [retryAttempt |-> 3, currentToken |-> t, invoked |-> <<t, t, t>>, refreshReq |-> 2, signOut |-> 0]
RunLoop(t, op) == Loop(LoopStart(t), op)

(* the invocations of the operation made by one call: one remote call each *)
NewRequests(c, op, gameId, name, run) ==
  [i \in 1 .. Len(run.invoked) |->
     [call |-> c, attempt |-> i, op |-> op, gameId |-> gameId, name |-> name,
      token |-> run.invoked[i], snap |-> games, stale |-> FALSE,
      state |-> "sent", resp |-> NoResp]]

(* what one withTokenRefresh call has done so far *)
NewCall(run) ==
  [tokens |-> run.invoked, results |-> Repeat("pending", Len(run.invoked)),
   refreshes |-> run.refreshReq, signOuts |-> run.signOut,
   onSuccess |-> 0, onError |-> 0, errorFlashes |-> 0, successFlashes |-> 0]
Finished == NewCall(LoopStart(NoToken))
NoRequest ==
  [call |-> 0, attempt |-> 0, op |-> "none", gameId |-> 0, name |-> "",
   token |-> NoToken, snap |-> 0, stale |-> FALSE, state |-> "none", resp |-> NoResp]

NoLast == [kind |-> "none", req |-> NoRequest, resp |-> NoResp, call |-> Finished]
Skipped(op, gameId, name) ==
  [kind |-> "skipped", req |-> [NoRequest EXCEPT !.op = op, !.gameId = gameId, !.name = name],
   resp |-> NoResp, call |-> Finished]

(* withTokenRefresh(fn) as seen from a render holding user u and token t;   *)
(* b holds the values of pendingRefresh and signOutPending that the task    *)
(* has produced so far.                                                     *)
WithTokenRefresh(op, gameId, name, u, t, b) ==
  LET c == Len(calls) + 1 IN
  /\ Len(calls) < callLimit
  /\ callLimit' = callLimit
  /\ IF ~Precondition(u, t)
     THEN /\ calls' = Append(calls, Finished)
          /\ last' = Skipped(op, gameId, name)
          /\ requests' = requests
          /\ pendingRefresh' = b.pending
          /\ signOutPending' = b.signOutPending
          /\ gamesLoadingState' = gamesLoadingState
     ELSE LET run == RunLoop(t, op) IN
          /\ calls' = Append(calls, NewCall(run))
          /\ last' = NoLast
          /\ requests' = requests \o NewRequests(c, op, gameId, name, run)
          /\ pendingRefresh' = b.pending \o Repeat(c, run.refreshReq)
          /\ signOutPending' = (b.signOutPending \/ run.signOut > 0)
          /\ gamesLoadingState' =                                   \* line 118, in fetchGames' fn
               IF op = "load" /\ Len(run.invoked) > 0 THEN LOADING ELSE gamesLoadingState

Base == [pending |-> pendingRefresh, signOutPending |-> signOutPending]

(* GamesProvider effect on [authLoading, token], lines 233-237, run after a *)
(* task that leaves authLoading al, token t and user u.                     *)
FetchEffect(al, t, u, b) ==
  IF (al # authLoading \/ t # token) /\ ~(al \/ t = NoToken)
  THEN WithTokenRefresh("load", 0, "", u, t, b)
  ELSE /\ pendingRefresh' = b.pending
       /\ signOutPending' = b.signOutPending
       /\ last' = NoLast
       /\ UNCHANGED <<calls, requests, gamesLoadingState, callLimit>>

(* LoginProvider effect on [user, authError], lines 318-324, run after a    *)
(* task that leaves user u and authError e.                                 *)
LoginEffect(u, e, b) ==
  IF u # user \/ e # authError
  THEN [pending |-> IF u # NoUser THEN Append(b.pending, 0) ELSE b.pending,
        signOutPending |-> (b.signOutPending \/ e)]
  ELSE b

RefreshBudget == issued + Len(pendingRefresh) < MaxTokens

pageVars == <<games, heap, flashProps, modalHidden>>

(* useAuthState: the identity provider resolves the initial state *)
AuthResolves(u) ==
  /\ authLoading
  /\ u = NoUser \/ RefreshBudget
  /\ user' = u
  /\ authLoading' = FALSE
  /\ UNCHANGED <<authError, token, issued>>
  /\ FetchEffect(FALSE, token, u, LoginEffect(u, authError, Base))
  /\ UNCHANGED <<pageVars, serverVars>>

(* useAuthState: a user signs in *)
SignIn(u) ==
  /\ ~authLoading /\ user = NoUser /\ u # NoUser
  /\ RefreshBudget
  /\ user' = u
  /\ authError' = FALSE
  /\ UNCHANGED <<authLoading, token, issued>>
  /\ FetchEffect(authLoading, token, u, LoginEffect(u, FALSE, Base))
  /\ UNCHANGED <<pageVars, serverVars>>

(* useAuthState reports an error: value undefined, loading false *)
AuthErrorOccurs ==
  /\ ~authError
  /\ user' = NoUser
  /\ authLoading' = FALSE
  /\ authError' = TRUE
  /\ UNCHANGED <<token, issued>>
  /\ FetchEffect(FALSE, token, NoUser, LoginEffect(NoUser, TRUE, Base))
  /\ UNCHANGED <<pageVars, serverVars>>

(* signOutWithGoogle() called from the page (outside LoginProvider) *)
SignOutRequested ==
  /\ user # NoUser /\ ~signOutPending
  /\ signOutPending' = TRUE
  /\ last' = NoLast
  /\ UNCHANGED <<sessionVars, pendingRefresh, calls, requests, gamesLoadingState,
                 pageVars, serverVars, callLimit>>

(* the identity provider completes a sign-out: useAuthState yields value    *)
(* null and no error                                                        *)
SignOutCompletes ==
  /\ signOutPending
  /\ user' = NoUser
  /\ authError' = FALSE
  /\ UNCHANGED <<authLoading, token, issued>>
  /\ FetchEffect(authLoading, token, NoUser,
                 LoginEffect(NoUser, FALSE, [Base EXCEPT !.signOutPending = FALSE]))
  /\ UNCHANGED <<pageVars, serverVars>>

(* a getIdToken(true) promise resolves: setToken(idToken), lines 299-302, 322 *)
RefreshResolves(i) ==
  /\ i \in 1 .. Len(pendingRefresh)
  /\ issued' = issued + 1
  /\ token' = issued + 1
  /\ UNCHANGED <<user, authLoading, authError>>
  /\ FetchEffect(authLoading, issued + 1, user,
                 [Base EXCEPT !.pending = RemoveAt(pendingRefresh, i)])
  /\ UNCHANGED <<pageVars, serverVars>>

(* ------------------------- remote API ----------------------------------- *)

IndexOfId(arr, gameId) ==
  CHOOSE i \in 1 .. Len(arr) :
    arr[i].id = gameId /\ \A j \in 1 .. (i - 1) : arr[j].id # gameId
HasId(arr, gameId) == \E i \in 1 .. Len(arr) : arr[i].id = gameId
WithoutId(arr, gameId) == LET Keep(g) == g.id # gameId IN SelectSeq(arr, Keep)

OkResp(status, array, json) ==
  [ok |-> TRUE, status |-> status, array |-> array, json |-> json, error |-> NoError]
ErrorResp(e) ==
  [ok |-> FALSE, status |-> e.code, array |-> FALSE, json |-> <<>>, error |-> e]

Answer(r, resp) ==
  requests' = [requests EXCEPT ![r].state = "answered", ![r].resp = resp]

(* the remote API carries out request r and answers with success *)
ServerHandles(r) ==
  LET q == requests[r] IN
  /\ q.state = "sent"
  /\ CASE q.op = "load" ->
            /\ Answer(r, OkResp(200, TRUE, srv))
            /\ UNCHANGED serverVars
       [] q.op = "create" ->
            /\ Answer(r, OkResp(201, FALSE, <<Game(nextId, q.name)>>))
            /\ srv' = Append(srv, Game(nextId, q.name))
            /\ nextId' = nextId + 1
       [] q.op = "update" ->
            /\ HasId(srv, q.gameId)
            /\ Answer(r, OkResp(200, FALSE, <<Game(q.gameId, q.name)>>))
            /\ srv' = [srv EXCEPT ![IndexOfId(srv, q.gameId)] = Game(q.gameId, q.name)]
            /\ nextId' = nextId
       [] q.op = "destroy" ->
            /\ HasId(srv, q.gameId)
            /\ Answer(r, OkResp(204, FALSE, <<>>))
            /\ srv' = WithoutId(srv, q.gameId)
            /\ nextId' = nextId
  /\ last' = NoLast
  /\ UNCHANGED <<sessionVars, pendingRefresh, signOutPending, calls,
                 gamesLoadingState, pageVars, callLimit>>

(* ------------------------- GamesProvider -------------------------------- *)

(* handleApiError, lines 53-72: the flash props it sets *)
HandleApiErrorSwapped(e) ==
  IF e.isArray
  THEN [hidden |-> FALSE, type |-> "error", header |-> <<Len(e.message)>>,
        isArray |-> TRUE, message |-> e.message]
  ELSE [hidden |-> FALSE, type |-> "error", header |-> <<>>, isArray |-> FALSE,
        message |-> <<IF e.code = 404 THEN UNEXPECTED_ERROR_MESSAGE ELSE NOT_FOUND_MESSAGE>>]
HandleApiError(e) ==
  IF e.isArray
  THEN [hidden |-> FALSE, type |-> "error", header |-> <<Len(e.message)>>,
        isArray |-> TRUE, message |-> e.message]
  ELSE [hidden |-> FALSE, type |-> "error", header |-> <<>>, isArray |-> FALSE,
        message |-> <<IF e.code = 404 THEN NOT_FOUND_MESSAGE ELSE UNEXPECTED_ERROR_MESSAGE>>]

SuccessFlash(msg) ==
  [hidden |-> FALSE, type |-> "success", header |-> <<>>, isArray |-> FALSE, message |-> <<msg>>]

(* `if (e.code === 401) throw e`, lines 100, 128, 171, 210 *)
RethrownAlso404(e) == e.code = 401 \/ e.code = 404
Rethrown(e) == e.code = 401

(* Array.prototype.findIndex, line 155: 0-based, -1 when absent *)
FindIndex(arr, gameId) == IF HasId(arr, gameId) THEN IndexOfId(arr, gameId) - 1 ELSE -1
(* newGames[index] = json, line 156: index -1 sets a property, no element *)
ArraySet(arr, index, json) ==
  IF index >= 0 /\ index < Len(arr) THEN [arr EXCEPT ![index + 1] = json] ELSE arr

(* line 90: [json, ...games] *)
PrependedAtEnd(arr, json) == Append(arr, json)
Prepended(arr, json) == <<json>> \o arr
(* lines 154-156, on the array held by the captured `games` *)
UpdatedOffByOne(arr, gameId, json) == ArraySet(arr, FindIndex(arr, gameId) + 1, json)
UpdatedByAdding(arr, gameId, json) == <<json>> \o arr
Updated(arr, gameId, json) == ArraySet(arr, FindIndex(arr, gameId), json)
(* line 198: games.filter(({ id }) => id !== gameId) *)
FilteredKeepingId(arr, gameId) == LET Keep(g) == g.id = gameId IN SelectSeq(arr, Keep)
Filtered(arr, gameId) == LET Keep(g) == g.id # gameId IN SelectSeq(arr, Keep)

(* Arrays are JavaScript objects: the heap keeps those still referenced, by *)
(* the `games` state g or by the closure of a request in flight, in order   *)
(* of allocation.                                                           *)
Rank(x, live) == Cardinality({y \in live : y <= x})
Compact(h, g, reqs) ==
  LET live == {g} \cup {reqs[i].snap : i \in 1 .. Len(reqs)} IN
  [heap |-> [k \in 1 .. Cardinality(live) |-> h[CHOOSE x \in live : Rank(x, live) = k]],
   games |-> Rank(g, live),
   requests |-> [i \in 1 .. Len(reqs) |-> [reqs[i] EXCEPT !.snap = Rank(@, live)]]]

(* the promise of request r settles with resp; the handler leaves `games`   *)
(* referring to g in heap h and the call's record as cr                     *)
Settle(r, outcome, resp, h, g, cr) ==
  LET q == requests[r]
      others == [i \in 1 .. Len(requests) - 1 |->
                   [RemoveAt(requests, r)[i] EXCEPT !.stale = TRUE]]
      n == Compact(h, g, others)
      done == [cr EXCEPT !.results[q.attempt] = outcome]
  IN /\ heap' = n.heap
     /\ games' = n.games
     /\ requests' = n.requests
     /\ last' = [kind |-> "settled", req |-> [q EXCEPT !.resp = NoResp, !.snap = 0],
                 resp |-> resp, call |-> done]
     /\ calls' = [calls EXCEPT ![q.call] =
                    IF \A i \in 1 .. Len(done.results) : done.results[i] # "pending"
                    THEN Finished ELSE done]

(* setGames(a new array) *)
Alloc(arr) == Append(heap, arr)
NewRef == Len(heap) + 1

Succeeded(cr) == [cr EXCEPT !.successFlashes = @ + 1, !.onSuccess = @ + 1]
FailedWithoutOnError(cr) == [cr EXCEPT !.errorFlashes = @ + 1]
Failed(cr) == [cr EXCEPT !.errorFlashes = @ + 1, !.onError = @ + 1]

envUnchanged ==
  UNCHANGED <<sessionVars, pendingRefresh, signOutPending, serverVars, callLimit>>

(* createGame, lines 88-98 *)
CreateGameThen(r) ==
  LET q == requests[r] IN
  /\ q.state = "answered" /\ q.op = "create"
  /\ IF ~q.resp.array /\ Len(q.resp.json) = 1                 \* 'name' in json
     THEN /\ Settle(r, "ok", q.resp, Alloc(Prepended(heap[q.snap], q.resp.json[1])), NewRef,
                    Succeeded(calls[q.call]))
          /\ flashProps' = SuccessFlash("Success! Your game has been created.")
     ELSE /\ Settle(r, "ok", q.resp, heap, games, calls[q.call])
          /\ UNCHANGED flashProps
  /\ UNCHANGED <<gamesLoadingState, modalHidden>>
  /\ envUnchanged

(* fetchGames, lines 121-126 *)
FetchGamesThen(r) ==
  LET q == requests[r] IN
  /\ q.state = "answered" /\ q.op = "load"
  /\ IF q.resp.array                                          \* Array.isArray(json)
     THEN /\ Settle(r, "ok", q.resp, Alloc(q.resp.json), NewRef, calls[q.call])
          /\ gamesLoadingState' = DONE
     ELSE /\ Settle(r, "ok", q.resp, heap, games, calls[q.call])
          /\ UNCHANGED gamesLoadingState
  /\ UNCHANGED <<flashProps, modalHidden>>
  /\ envUnchanged

(* updateGame, lines 152-168 *)
UpdateGameThen(r) ==
  LET q == requests[r] IN
  /\ q.state = "answered" /\ q.op = "update"
  /\ IF q.resp.status = 200
     THEN /\ Settle(r, "ok", q.resp,
                    [heap EXCEPT ![q.snap] = Updated(@, q.gameId, q.resp.json[1])], q.snap,
                    Succeeded(calls[q.call]))
          /\ modalHidden' = TRUE
          /\ flashProps' = SuccessFlash("Success! Your game has been updated.")
     ELSE /\ Settle(r, "ok", q.resp, heap, games, calls[q.call])
          /\ UNCHANGED <<modalHidden, flashProps>>
  /\ UNCHANGED gamesLoadingState
  /\ envUnchanged

(* destroyGame, lines 196-207 *)
DestroyGameThen(r) ==
  LET q == requests[r] IN
  /\ q.state = "answered" /\ q.op = "destroy"
  /\ IF q.resp.status = 204
     THEN /\ Settle(r, "ok", q.resp, Alloc(Filtered(heap[q.snap], q.gameId)), NewRef,
                    Succeeded(calls[q.call]))
          /\ flashProps' = SuccessFlash("Success! Your game has been deleted.")
     ELSE /\ Settle(r, "ok", q.resp, heap, games, calls[q.call])
          /\ UNCHANGED flashProps
  /\ UNCHANGED <<gamesLoadingState, modalHidden>>
  /\ envUnchanged

(* the .catch handlers of createGame, updateGame and destroyGame,           *)
(* lines 99-104, 170-176, 209-215, on the ApiError e of request r           *)
MutationCatch(r, e) ==
  LET q == requests[r] IN
  /\ q.state = "sent" /\ q.op \in {"create", "update", "destroy"}
  /\ IF Rethrown(e)
     THEN /\ Settle(r, "rejected", ErrorResp(e), heap, games, calls[q.call])
          /\ UNCHANGED flashProps
     ELSE /\ Settle(r, "failed", ErrorResp(e), heap, games, Failed(calls[q.call]))
          /\ flashProps' = HandleApiError(e)
  /\ UNCHANGED <<gamesLoadingState, modalHidden>>
  /\ envUnchanged

(* the .catch handler of fetchGames, lines 127-133 *)
FetchGamesCatch(r, e) ==
  LET q == requests[r] IN
  /\ q.state = "sent" /\ q.op = "load"
  /\ IF Rethrown(e)
     THEN /\ Settle(r, "rejected", ErrorResp(e), heap, games, calls[q.call])
          /\ UNCHANGED <<flashProps, gamesLoadingState>>
     ELSE /\ Settle(r, "failed", ErrorResp(e), Alloc(<<>>), NewRef,
                    [calls[q.call] EXCEPT !.errorFlashes = @ + 1])
          /\ flashProps' = HandleApiError(e)
          /\ gamesLoadingState' = ERROR
  /\ UNCHANGED modalHidden
  /\ envUnchanged

(* the page calls createGame / updateGame / destroyGame of the context *)
CreateGame(name) ==
  /\ WithTokenRefresh("create", 0, name, user, token, Base)
  /\ UNCHANGED <<sessionVars, pageVars, serverVars>>
UpdateGame(gameId, name) ==
  /\ WithTokenRefresh("update", gameId, name, user, token, Base)
  /\ UNCHANGED <<sessionVars, pageVars, serverVars>>
DestroyGame(gameId) ==
  /\ WithTokenRefresh("destroy", gameId, "", user, token, Base)
  /\ UNCHANGED <<sessionVars, pageVars, serverVars>>

(* ------------------------- specification -------------------------------- *)

InitSrv(k) == [i \in 1 .. k |-> Game(i, "a")]

Constructed ==
  /\ user = NoUser /\ authLoading = TRUE /\ authError = FALSE
  /\ token = NoToken /\ issued = 0 /\ pendingRefresh = <<>>
  /\ signOutPending = FALSE
  /\ heap = << <<>> >> /\ games = 1
  /\ gamesLoadingState = LOADING
  /\ flashProps = NoFlash /\ modalHidden = FALSE
  /\ calls = <<>> /\ requests = <<>>
  /\ last = NoLast
  /\ srv = InitSrv(MaxSrv) /\ nextId = MaxSrv + 1

Init == Constructed /\ callLimit = MaxCalls

Next ==
  \/ \E u \in Users \cup {NoUser} : AuthResolves(u)
  \/ \E u \in Users : SignIn(u)
  \/ AuthErrorOccurs
  \/ SignOutRequested
  \/ SignOutCompletes
  \/ \E i \in 1 .. Len(pendingRefresh) : RefreshResolves(i)
  \/ \E n \in CreateNames : CreateGame(n)
  \/ \E g \in GameIds, n \in UpdateNames : UpdateGame(g, n)
  \/ \E g \in GameIds : DestroyGame(g)
  \/ \E r \in 1 .. Len(requests) : ServerHandles(r)
  \/ \E r \in 1 .. Len(requests) : CreateGameThen(r)
  \/ \E r \in 1 .. Len(requests) : FetchGamesThen(r)
  \/ \E r \in 1 .. Len(requests) : UpdateGameThen(r)
  \/ \E r \in 1 .. Len(requests) : DestroyGameThen(r)
  \/ \E r \in 1 .. Len(requests), e \in ApiErrors : MutationCatch(r, e)
  \/ \E r \in 1 .. Len(requests), e \in ApiErrors : FetchGamesCatch(r, e)

Spec == Init /\ [][Next]_vars

(* The session is never signed out and meets no identity-provider error:    *)
(* one more guarded call is explored.                                       *)
InitQuiet == Constructed /\ callLimit = MaxCalls + 1

NextQuiet ==
  \/ \E u \in Users \cup {NoUser} : AuthResolves(u)
  \/ \E u \in Users : SignIn(u)
  \/ \E i \in 1 .. Len(pendingRefresh) : RefreshResolves(i)
  \/ \E n \in CreateNames : CreateGame(n)
  \/ \E g \in GameIds, n \in UpdateNames : UpdateGame(g, n)
  \/ \E g \in GameIds : DestroyGame(g)
  \/ \E r \in 1 .. Len(requests) : ServerHandles(r)
  \/ \E r \in 1 .. Len(requests) : CreateGameThen(r)
  \/ \E r \in 1 .. Len(requests) : FetchGamesThen(r)
  \/ \E r \in 1 .. Len(requests) : UpdateGameThen(r)
  \/ \E r \in 1 .. Len(requests) : DestroyGameThen(r)
  \/ \E r \in 1 .. Len(requests), e \in ApiErrors : MutationCatch(r, e)
  \/ \E r \in 1 .. Len(requests), e \in ApiErrors : FetchGamesCatch(r, e)

SpecQuiet == InitQuiet /\ [][NextQuiet]_vars

(* As SpecQuiet, with a page that calls the store only once the collection  *)
(* is loaded, and a remote API that answers every request with success.     *)
NextLoaded ==
  \/ \E u \in Users \cup {NoUser} : AuthResolves(u)
  \/ \E u \in Users : SignIn(u)
  \/ \E i \in 1 .. Len(pendingRefresh) : RefreshResolves(i)
  \/ gamesLoadingState = DONE /\ \E n \in CreateNames : CreateGame(n)
  \/ gamesLoadingState = DONE /\ \E g \in GameIds, n \in UpdateNames : UpdateGame(g, n)
  \/ gamesLoadingState = DONE /\ \E g \in GameIds : DestroyGame(g)
  \/ \E r \in 1 .. Len(requests) : ServerHandles(r)
  \/ \E r \in 1 .. Len(requests) : CreateGameThen(r)
  \/ \E r \in 1 .. Len(requests) : FetchGamesThen(r)
  \/ \E r \in 1 .. Len(requests) : UpdateGameThen(r)
  \/ \E r \in 1 .. Len(requests) : DestroyGameThen(r)

SpecLoaded == InitQuiet /\ [][NextLoaded]_vars

(* ------------------------- properties ----------------------------------- *)

Settled == last.kind = "settled"
CallOver(cr) == \A i \in 1 .. Len(cr.results) : cr.results[i] # "pending"
NonAuthFailure(resp) == ~resp.ok /\ resp.error.code # 401
Occurrences(arr, gameId) == Cardinality({i \in 1 .. Len(arr) : arr[i].id = gameId})

(* C1: a guarded call whose first attempt was answered 401 has, once it is  *)
(* over, requested exactly one forced refresh and invoked its operation     *)
(* exactly twice, the second time with a credential other than the first.   *)
C1_RetryWithNewCredential ==
  (Settled /\ CallOver(last.call) /\ last.call.results[1] = "rejected")
    => /\ last.call.refreshes = 1
       /\ Len(last.call.tokens) = 2
       /\ last.call.tokens[2] # last.call.tokens[1]

(* C2: a guarded call all of whose attempts were answered 401 has, once it  *)
(* is over, invoked sign-out exactly once and shown no error notification.  *)
C2_SignOutAfterSecondRejection ==
  (Settled /\ CallOver(last.call)
     /\ \A i \in 1 .. Len(last.call.results) : last.call.results[i] = "rejected")
    => /\ last.call.signOuts = 1
       /\ last.call.errorFlashes = 0

(* C3: a guarded call whose attempt failed with an ApiError other than 401  *)
(* invoked its operation exactly once, requested no refresh and did not     *)
(* sign out; nothing of the call is left in flight.                         *)
C3_NoRetryOnOtherFailure ==
  (Settled /\ NonAuthFailure(last.resp))
    => /\ Len(last.call.tokens) = 1
       /\ last.call.refreshes = 0
       /\ last.call.signOuts = 0
       /\ \A i \in 1 .. Len(requests) : requests[i].call # last.req.call
       /\ \A i \in 1 .. Len(pendingRefresh) : pendingRefresh[i] # last.req.call
C3_Witness ==
  /\ Settled /\ last.req.op = "destroy"
  /\ ~last.resp.ok /\ last.resp.error.code = 500

C5_TokenIffAuthenticated ==
  (token # NoToken) <=> (user # NoUser /\ ~authLoading)

(* C6: when the response of a createGame settles with the created resource  *)
(* and no other response was processed since the call, the collection       *)
(* becomes that resource followed by the former collection.                 *)
C6_CreatePrepends ==
  [][(last'.kind = "settled" /\ last'.req.op = "create" /\ last'.resp.ok /\ ~last'.req.stale)
       => /\ Len(Games') = Len(Games) + 1
          /\ Games'[1] = last'.resp.json[1]
          /\ \A i \in 1 .. Len(Games) : Games'[i + 1] = Games[i]]_vars
C6_Witness ==
  /\ Settled /\ last.req.op = "create" /\ last.resp.ok /\ ~last.req.stale
  /\ Len(Games) = MaxSrv + 1
  /\ Games[1] = last.resp.json[1]

(* C7: when the response of updateGame(id) settles with status 200 and no   *)
(* other response was processed since the call, the collection keeps its    *)
(* length, the entry with that id holds the returned representation at the  *)
(* same position and every other entry is unchanged.                        *)
C7_UpdateReplacesInPlace ==
  [][(last'.kind = "settled" /\ last'.req.op = "update" /\ last'.resp.status = 200
        /\ ~last'.req.stale)
       => /\ Len(Games') = Len(Games)
          /\ \A i \in 1 .. Len(Games) :
               Games'[i] = IF /\ Games[i].id = last'.req.gameId
                              /\ \A j \in 1 .. (i - 1) : Games[j].id # last'.req.gameId
                           THEN last'.resp.json[1]
                           ELSE Games[i]]_vars
C7_Witness ==
  /\ Settled /\ last.req.op = "update" /\ last.resp.status = 200 /\ ~last.req.stale
  /\ last.req.gameId = 2
  /\ Games = <<Game(1, "a"), Game(2, "b")>>

(* C8 as claimed: when the response of destroyGame(id) settles with status  *)
(* 204 and no other response was processed since the call, for any id the   *)
(* collection is one entry shorter, holds no entry with that id and keeps   *)
(* the others in order.                                                     *)
C8_DestroyShortensByOne ==
  [][(last'.kind = "settled" /\ last'.req.op = "destroy" /\ last'.resp.status = 204
        /\ ~last'.req.stale)
       => /\ Len(Games') = Len(Games) - 1
          /\ ~HasId(Games', last'.req.gameId)
          /\ Games' = WithoutId(Games, last'.req.gameId)]_vars

(* C8 as amended: under the same conditions the collection becomes the      *)
(* former one without its entries of that id, the others unchanged and in   *)
(* order: one entry shorter when one entry had the id, unchanged when none  *)
(* had.                                                                     *)
C8_DestroyRemovesEntriesOfId ==
  [][(last'.kind = "settled" /\ last'.req.op = "destroy" /\ last'.resp.status = 204
        /\ ~last'.req.stale)
       => /\ ~HasId(Games', last'.req.gameId)
          /\ Games' = WithoutId(Games, last'.req.gameId)
          /\ Len(Games') = Len(Games) - Occurrences(Games, last'.req.gameId)
          /\ (Occurrences(Games, last'.req.gameId) = 0 => Games' = Games)]_vars
C8_Witness ==
  /\ Settled /\ last.req.op = "destroy" /\ last.resp.status = 204 /\ ~last.req.stale
  /\ last.req.gameId = 1
  /\ Games = <<Game(2, "a")>>

(* C9: fetchGames sets the loading state to LOADING in the task that issues *)
(* its remote call; a failure other than 401 leaves an empty collection and *)
(* ERROR; a success leaves DONE and exactly the sequence the server         *)
(* returned.                                                                *)
C9_Load ==
  [][/\ (Len(requests') > Len(requests) /\ requests'[Len(requests')].op = "load")
          => gamesLoadingState' = LOADING
     /\ (last'.kind = "settled" /\ last'.req.op = "load" /\ NonAuthFailure(last'.resp))
          => (Games' = <<>> /\ gamesLoadingState' = ERROR)
     /\ (last'.kind = "settled" /\ last'.req.op = "load" /\ last'.resp.ok)
          => (Games' = last'.resp.json /\ gamesLoadingState' = DONE)]_vars
C9_Witness ==
  /\ Settled /\ last.req.op = "load" /\ last.resp.ok
  /\ Games = InitSrv(MaxSrv) /\ gamesLoadingState = DONE

(* C10: a failure other than 401 of any operation leaves exactly one error  *)
(* notification: for a list of N messages, the N messages with the count N; *)
(* for a scalar message, the not-found text for code 404 and the            *)
(* unexpected-error text for any other code.                                *)
C10_ErrorClassification ==
  (Settled /\ NonAuthFailure(last.resp))
    => /\ flashProps.type = "error" /\ ~flashProps.hidden
       /\ last.call.errorFlashes
            = Cardinality({i \in 1 .. Len(last.call.results) : last.call.results[i] = "failed"})
       /\ last.call.errorFlashes = 1
       /\ last.resp.error.isArray =>
            /\ flashProps.message = last.resp.error.message
            /\ flashProps.header = <<Len(last.resp.error.message)>>
       /\ (~last.resp.error.isArray /\ last.resp.error.code = 404) =>
            flashProps.message = <<NOT_FOUND_MESSAGE>>
       /\ (~last.resp.error.isArray /\ last.resp.error.code # 404) =>
            flashProps.message = <<UNEXPECTED_ERROR_MESSAGE>>
C10_Witness ==
  /\ Settled /\ NonAuthFailure(last.resp)
  /\ last.resp.error.isArray /\ Len(last.resp.error.message) = MaxMsgs
  /\ flashProps.header = <<MaxMsgs>>

(* C11: in every reachable state, whatever the order in which responses of  *)
(* concurrent calls are processed, no two entries of the collection have    *)
(* the same id.                                                             *)
C11_UniqueIds ==
  \A i, j \in 1 .. Len(Games) : Games[i].id = Games[j].id => i = j
C11_Witness ==
  /\ Settled /\ last.req.op = "load" /\ last.resp.ok /\ last.req.stale
  /\ Len(Games) = MaxSrv + 1
  /\ Occurrences(Games, MaxSrv + 1) = 1

(* C12: fetchGames is invoked by the effect in exactly those tasks in which *)
(* the session becomes usable (before: loading or no token; after: not      *)
(* loading and a token held); a task that replaces the token of a usable    *)
(* session invokes no load.                                                 *)
C12_LoadOnlyOnBecomingUsable ==
  [][LET loadInvoked ==
           /\ Len(calls') > Len(calls)
           /\ IF last'.kind = "skipped"
              THEN last'.req.op = "load"
              ELSE requests'[Len(requests')].op = "load"
         becameUsable ==
           /\ authLoading \/ token = NoToken
           /\ ~authLoading' /\ token' # NoToken
     IN loadInvoked <=> becameUsable]_vars

(* C13: once a guarded call is over with every attempt answered 401, the    *)
(* session is being signed out or holds no user, a session without user     *)
(* holds no token, and the call has invoked its operation at most twice     *)
(* and has nothing left in flight.                                          *)
C13_SessionClearedAfterRejections ==
  (Settled /\ CallOver(last.call)
     /\ \A i \in 1 .. Len(last.call.results) : last.call.results[i] = "rejected")
    => /\ signOutPending \/ user = NoUser
       /\ user = NoUser => token = NoToken
       /\ Len(last.call.tokens) <= 2
       /\ \A i \in 1 .. Len(requests) : requests[i].call # last.req.call

(* C14: the task that processes a failure other than 401 of createGame,     *)
(* updateGame or destroyGame invokes onError once and onSuccess not at all, *)
(* shows one error notification and leaves the collection and the loading   *)
(* state as they were.                                                      *)
C14_MutationFailureFrame ==
  [][(/\ last'.kind = "settled"
      /\ last'.req.op \in {"create", "update", "destroy"}
      /\ NonAuthFailure(last'.resp))
       => /\ last'.call.onError = calls[last'.req.call].onError + 1
          /\ last'.call.onError = 1
          /\ last'.call.onSuccess = 0
          /\ last'.call.errorFlashes = calls[last'.req.call].errorFlashes + 1
          /\ last'.call.successFlashes = 0
          /\ flashProps'.type = "error" /\ ~flashProps'.hidden
          /\ Games' = Games
          /\ gamesLoadingState' = gamesLoadingState]_vars
C14_Witness ==
  /\ Settled /\ last.req.op = "update" /\ NonAuthFailure(last.resp)
  /\ last.call.onError = 1 /\ last.call.onSuccess = 0
  /\ Games = InitSrv(MaxSrv) /\ gamesLoadingState = DONE

(* C15: when the response of updateGame(id) settles with status 200 and no  *)
(* entry of the collection has that id, neither when the call was issued    *)
(* nor now, the task leaves the sequence of entries of the collection       *)
(* unchanged.                                                               *)
C15_UpdateOfAbsentIdIsNoOp ==
  [][(\E r \in 1 .. Len(requests) :
        /\ UpdateGameThen(r)
        /\ requests[r].resp.status = 200
        /\ ~HasId(heap[requests[r].snap], requests[r].gameId)
        /\ ~HasId(Games, requests[r].gameId))
       => Games' = Games]_vars

(* C16: once the first attempt of a guarded call is known to have been      *)
(* answered 401, the call has requested one refresh; while that refresh is  *)
(* pending the operation has not been invoked again, and a second           *)
(* invocation uses the credential that the refresh stored.                  *)
C16_RefreshBetweenAttempts ==
  (Settled /\ last.call.results[1] = "rejected")
    => LET pending == \E i \in 1 .. Len(pendingRefresh) : pendingRefresh[i] = last.req.call
       IN /\ last.call.refreshes = 1
          /\ pending => Len(last.call.tokens) = 1
          /\ Len(last.call.tokens) = 2
               => (~pending /\ last.call.tokens[2] # last.call.tokens[1])

(* C17: every guarded call, also when several are in flight and all are     *)
(* answered 401, requests at most one refresh and invokes its operation at  *)
(* most twice; the refreshes pending for guarded calls are at most one per  *)
(* call.                                                                    *)
C17_BoundedRetry ==
  /\ \A c \in 1 .. Len(calls) :
       /\ calls[c].refreshes <= 1
       /\ Len(calls[c].tokens) <= 2
       /\ Cardinality({i \in 1 .. Len(pendingRefresh) : pendingRefresh[i] = c}) <= 1
       /\ Cardinality({i \in 1 .. Len(requests) : requests[i].call = c}) <= 2
  /\ last.call.refreshes <= 1
  /\ Len(last.call.tokens) <= 2
C17_Witness ==
  /\ Settled /\ last.resp.status = 401 /\ last.req.stale
  /\ Len(calls) = 2 /\ requests = <<>>
  /\ flashProps = NoFlash /\ gamesLoadingState = LOADING

(* C18: with mutations issued on a loaded collection before the response of *)
(* either is processed and all answered with success, the task that         *)
(* processes a response applies its mutation to the collection held at that *)
(* moment: a created resource is put before it, an updated one replaces the *)
(* entry of its id in it, a destroyed one is removed from it.               *)
C18_AppliedToCurrentCollection ==
  [][(last'.kind = "settled" /\ last'.resp.ok)
       => /\ last'.req.op = "create" => Games' = <<last'.resp.json[1]>> \o Games
          /\ last'.req.op = "update" =>
               Games' = [i \in 1 .. Len(Games) |->
                           IF Games[i].id = last'.req.gameId
                           THEN last'.resp.json[1] ELSE Games[i]]
          /\ last'.req.op = "destroy" => Games' = WithoutId(Games, last'.req.gameId)]_vars

(* C19: with the store called only on a loaded collection and every request *)
(* answered with success, whenever no request is in flight the resources of *)
(* the collection are exactly the resources the server holds.               *)
C19_CacheConsistentAtQuiescence ==
  (requests = <<>> /\ gamesLoadingState = DONE)
    => {Games[i] : i \in 1 .. Len(Games)} = {srv[i] : i \in 1 .. Len(srv)}

(* C20: once the answer to a load's list request has been processed and     *)
(* neither a request nor a refresh is outstanding, the loading state is     *)
(* DONE or ERROR, not LOADING.                                              *)
C20_LoadLeavesLoading ==
  (Settled /\ last.req.op = "load" /\ requests = <<>> /\ pendingRefresh = <<>>)
    => gamesLoadingState \in {DONE, ERROR}

====
